---- MODULE Spec2Model ----
(***************************************************************************)
(* Model of the rolling train-predict loop of                              *)
(* scripts/generate_rolling_predictions.py (function main).                *)
(*                                                                         *)
(* The data frame df is modelled by its length and by the rows whose       *)
(* features are missing; a trainer adapter (train_predict_gb/nn/lc, code   *)
(* of common.classifiers) is an uninterpreted deterministic function of    *)
(* its arguments that may raise.  Strings are TLA+ strings, so that column *)
(* names are built and cut exactly as the code builds and cuts them.       *)
(*                                                                         *)
(* The module also models find_interval_score of                           *)
(* common/signal_generation.py, step by step on the frame its caller       *)
(* passes; scores and thresholds are in hundredths (0.5 is 50).            *)
(***************************************************************************)
EXTENDS Integers, Sequences, FiniteSets, TLC

\* ------------------------------------------------------------------ bounds
MaxLen == 4          \* largest len(df)
MaxStride == 2       \* largest P.prediction_length
MaxCount == 2        \* largest P.prediction_count
MaxHorizon == 1      \* largest label_horizon
MaxTrain == 2        \* largest P.kline_train_length
MaxWorkers == 2      \* largest P.max_workers
MaxPoints == 4       \* most rows of the frame passed to find_interval_score
MaxRows == 3         \* most rows of the frame passed to performance_score
MaxPrice == 3        \* largest price of a row

VARIABLES
    P,                  \* class P: the parameters of the script
    App,                \* App.config: label_horizon, labels
    df_len,             \* len(df)
    missing,            \* per feature set, and for the labels, the rows of df with
                        \* a missing value
    prediction_start,   \* find_index(df, P.prediction_start_str)
    pc,                 \* position of main
    error,              \* the exception that left main, "" if none
    stride, steps, step,
    predict_start, predict_end,
    windows,            \* history: the windows the loop has produced, in order
    predict_labels_df,  \* the window's table of predicted columns
    labels_hat_df,      \* the accumulated table
    block,              \* the feature-set block being executed: "kline" or "futur"
    name_tag, train_length, train_start, train_end,
    train_rows,         \* index of train_df after dropna
    label_i,            \* position of the loop over labels
    algo_i,             \* position in the fixed sequence of "if ... in P.algorithms"
    execution_results,  \* dict score_column_name -> future, in insertion order
    coll_i,             \* position of the loop over execution_results.items()
    tasks,              \* the futures of the run: <<step, name>> -> state and result
    finish_order,       \* the current executor's tasks in the order they finished
    out_file,           \* the predictions file, NoFile until written
    score_file,         \* the score report, NoFile until written
    ipc,                \* position of find_interval_score
    score_df,           \* find_interval_score: df, the frame of the caller
    threshold,          \* find_interval_score: threshold
    out,                \* find_interval_score: out
    interval_df,        \* find_interval_score: interval_df, the value returned
    passed_df,          \* history: df as it was when the call began
    results,            \* history: the values returned by the calls so far
    tpc,                \* position of performance_score
    trade_df,           \* performance_score: df, the frame of the caller
    row_i,              \* the rows of df the loop has consumed
    is_buy_mode,
    performance_long, long_count, long_profitable, longs,
    performance_short, short_count, short_profitable, shorts

config_vars == <<P, App, df_len, missing, prediction_start>>
window_vars == <<predict_start, predict_end, windows>>
train_vars == <<block, name_tag, train_length, train_start, train_end, train_rows>>
file_vars == <<out_file, score_file>>
interval_vars == <<ipc, score_df, threshold, out, interval_df, passed_df, results>>
long_vars == <<performance_long, long_count, long_profitable, longs>>
short_vars == <<performance_short, short_count, short_profitable, shorts>>
trade_vars == <<tpc, trade_df, row_i, is_buy_mode, performance_long, long_count,
                long_profitable, longs, performance_short, short_count,
                short_profitable, shorts>>
vars == <<P, App, df_len, missing, prediction_start, pc, error, stride, steps, step,
          predict_start, predict_end, windows, predict_labels_df, labels_hat_df, block,
          name_tag, train_length, train_start, train_end, train_rows, label_i,
          algo_i, execution_results, coll_i, tasks, finish_order, out_file,
          score_file, ipc, score_df, threshold, out, interval_df, passed_df,
          results, tpc, trade_df, row_i, is_buy_mode, performance_long, long_count,
          long_profitable, longs, performance_short, short_count,
          short_profitable, shorts>>
main_vars == <<P, App, df_len, missing, prediction_start, pc, error, stride, steps,
               step, predict_start, predict_end, windows, predict_labels_df,
               labels_hat_df, block, name_tag, train_length, train_start, train_end,
               train_rows, label_i, algo_i, execution_results, coll_i, tasks,
               finish_order, out_file, score_file>>

\* ------------------------------------------------------------------ helpers
Min(a, b) == IF a < b THEN a ELSE b
Max(a, b) == IF a > b THEN a ELSE b
Range(s) == {s[i] : i \in DOMAIN s}
NoFile == [written |-> FALSE]
NaN == <<"nan">>

\* The order of the three "if <algo> in P.algorithms" statements.
AlgoOrder == <<"gb", "nn", "lc">>

\* out_columns of main.
out_columns == <<"timestamp", "open", "high", "low", "close", "volume", "close_time">>

\* ------------------------------------------------------------------ data frames
\* A frame: its index, its columns in order, and one sequence of values per
\* column, aligned with the index.
EmptyFrame == [index |-> <<>>, columns |-> <<>>, data |-> <<>>]

\* pd.DataFrame(index=...)
FrameOfIndex(idx) == [index |-> idx, columns |-> <<>>, data |-> <<>>]

\* A bound of a Python slice [a:b] of a sequence of length n.
SliceBound(i, n) == IF i < 0 THEN Max(0, n + i) ELSE Min(i, n)

\* The index of df.iloc[a:b]; the index of df is 0..len(df)-1 after reset_index.
ILoc(a, b, n) ==
    LET lo == SliceBound(a, n)
        hi == SliceBound(b, n)
    IN  IF hi > lo THEN [k \in 1..(hi - lo) |-> lo + k - 1] ELSE <<>>

\* frame.dropna(subset=features), on the index.
DropNaNone(idx, nans) == idx
DropNa(idx, nans) == SelectSeq(idx, LAMBDA r : r \notin nans)

\* frame[name] = values
SetColumn(f, name, values) ==
    IF name \in Range(f.columns)
    THEN [f EXCEPT !.data = [c \in DOMAIN f.data |->
                                IF c = name THEN values ELSE f.data[c]]]
    ELSE [index |-> f.index,
          columns |-> Append(f.columns, name),
          data |-> (name :> values) @@ f.data]

\* a.append(b): the rows of b after the rows of a, over the union of the columns.
AppendFrameReplace(a, b) == b
AppendFrame(a, b) ==
    LET new == SelectSeq(b.columns, LAMBDA c : c \notin Range(a.columns))
        cols == a.columns \o new
        fill(f, c) == IF c \in Range(f.columns) THEN f.data[c]
                      ELSE [k \in 1..Len(f.index) |-> NaN]
    IN  [index |-> a.index \o b.index,
         columns |-> cols,
         data |-> [c \in Range(cols) |-> fill(a, c) \o fill(b, c)]]

\* A value of a column of df, which the model leaves uninterpreted; missing
\* where the row has no value of the labels.
Cell(col, row) ==
    IF col \in Range(App.labels) /\ row \in missing.labels THEN NaN ELSE <<col, row>>

\* a.join(df[cols]): a left join on the index.
JoinFrameNothing(a, cols) == a
JoinFrame(a, cols) ==
    LET all == a.columns \o cols
    IN  [index |-> a.index,
         columns |-> all,
         data |-> [c \in Range(all) |->
                     IF c \in Range(a.columns) THEN a.data[c]
                     ELSE [k \in 1..Len(a.index) |-> Cell(c, a.index[k])]]]

\* ------------------------------------------------------------------ trainer adapters
\* train_predict_<algo>(df_X, df_y, df_X_test, model_config): one prediction per
\* row of df_X_test, a function of the algorithm, the features (the feature
\* set's tag), the label, the training rows and the predicted row.
TrainPredict(args) ==
    [k \in 1..Len(args.test) |->
        <<args.algo, args.tag, args.label, args.train, args.test[k]>>]

\* score_column_name = label + name_tag + <algo>
ScoreColumnName(label, tag, algo) == label \o tag \o algo

\* ------------------------------------------------------------------ the window
\* predict_start and predict_end of a step.
PredictStartNoStride(s) == prediction_start + s
PredictStart(s) == prediction_start + (s * stride)
PredictEnd(s) == PredictStart(s) + stride

\* train_end = predict_start - label_horizon - 1
TrainEnd(pstart) == pstart - App.label_horizon - 1

\* train_start = train_end - train_length, 0 if negative
TrainStartUnclamped(tend, tlen) == tend - tlen
TrainStart(tend, tlen) == IF tend - tlen < 0 THEN 0 ELSE tend - tlen

\* ------------------------------------------------------------------ futures
FinishedAlways(f) == TRUE
Finished(f) == f.state \in {"done", "failed"}

\* future.result() raises the exception of a task that raised.
RaisedNever(f) == FALSE
Raised(f) == f.state = "failed"

\* dict[key] = value keeps the position of a key the dict already holds.
DictSetFront(d, key) == IF key \in Range(d) THEN d ELSE <<key>> \o d
DictSet(d, key) == IF key \in Range(d) THEN d ELSE Append(d, key)

Running == {id \in DOMAIN tasks : tasks[id].state = "running"}

\* The arguments the loop over labels passes for one algorithm.
CallArgs(algo) ==
    [algo |-> algo, tag |-> name_tag, label |-> App.labels[label_i],
     train |-> train_rows, test |-> predict_labels_df.index]

\* Line 144: the steps from the prediction start to the end of the data.
AllStepsCeil(st) == (df_len - prediction_start + st - 1) \div st
AllSteps(st) == (df_len - prediction_start) \div st

\* Line 145: the data after the prediction start is shorter than the steps.
NotEnoughDataFromZero(n, st) == df_len < n * st
NotEnoughData(n, st) == df_len - prediction_start < n * st

\* ------------------------------------------------------------------ main
\* Lines 140-151: the number of steps and the check of the data available.
CheckSteps ==
    /\ pc = "steps"
    /\ LET st == P.prediction_length
           n == IF P.prediction_count = 0
                THEN AllSteps(st)
                ELSE P.prediction_count
       IN  /\ stride' = st
           /\ steps' = n
           /\ IF NotEnoughData(n, st)
              THEN pc' = "raised" /\ error' = "ValueError"
              ELSE pc' = "loop" /\ error' = error
    /\ labels_hat_df' = EmptyFrame
    /\ UNCHANGED interval_vars
    /\ UNCHANGED trade_vars
    /\ UNCHANGED <<config_vars, window_vars, train_vars, file_vars, step,
                   predict_labels_df, label_i, algo_i, execution_results, coll_i,
                   tasks, finish_order>>

\* Lines 153-166: the head of "for step in range(steps)" and the window's rows.
LoopHead ==
    /\ pc = "loop"
    /\ IF step < steps
       THEN /\ predict_start' = PredictStart(step)
            /\ predict_end' = PredictEnd(step)
            /\ windows' = Append(windows,
                   [predict_start |-> PredictStart(step),
                    predict_end |-> PredictEnd(step),
                    rows |-> ILoc(PredictStart(step), PredictEnd(step), df_len)])
            /\ predict_labels_df' =
                   FrameOfIndex(ILoc(PredictStart(step), PredictEnd(step), df_len))
            /\ pc' = "kline"
       ELSE /\ pc' = "store"
            /\ UNCHANGED <<window_vars, predict_labels_df>>
    /\ UNCHANGED interval_vars
    /\ UNCHANGED trade_vars
    /\ UNCHANGED <<config_vars, train_vars, file_vars, error, stride, steps, step,
                   labels_hat_df, label_i, algo_i, execution_results, coll_i,
                   tasks, finish_order>>

\* The training span of a feature-set block (lines 172-197 and 251-276).
BeginBlock(set, tag, tlen) ==
    LET tend == TrainEnd(predict_start)
        tstart == TrainStart(tend, tlen)
    IN  /\ block' = set
        /\ name_tag' = tag
        /\ train_length' = tlen
        /\ train_end' = tend
        /\ train_start' = tstart
        /\ train_rows' = DropNa(ILoc(tstart, tend, df_len), missing[set])
        /\ label_i' = 1
        /\ pc' = "labels"

\* Line 171: if "kline" in P.feature_sets.
KlineBlock ==
    /\ pc = "kline"
    /\ IF "kline" \in P.feature_sets
       THEN BeginBlock("kline", "_k_", P.kline_train_length)
       ELSE pc' = "futur" /\ UNCHANGED <<train_vars, label_i>>
    /\ UNCHANGED interval_vars
    /\ UNCHANGED trade_vars
    /\ UNCHANGED <<config_vars, window_vars, file_vars, error, stride, steps, step,
                   predict_labels_df, labels_hat_df, algo_i, execution_results,
                   coll_i, tasks, finish_order>>

\* Line 250: if "futur" in P.feature_sets.
FuturBlock ==
    /\ pc = "futur"
    /\ IF "futur" \in P.feature_sets
       THEN BeginBlock("futur", "_f_", P.futur_train_length)
       ELSE pc' = "append" /\ UNCHANGED <<train_vars, label_i>>
    /\ UNCHANGED interval_vars
    /\ UNCHANGED trade_vars
    /\ UNCHANGED <<config_vars, window_vars, file_vars, error, stride, steps, step,
                   predict_labels_df, labels_hat_df, algo_i, execution_results,
                   coll_i, tasks, finish_order>>

\* Lines 199-206 (278-285): the head of "for label in labels".
LabelsHead ==
    /\ pc = "labels"
    /\ IF label_i <= Len(App.labels)
       THEN /\ pc' = IF P.use_multiprocessing THEN "submit" ELSE "seq"
            /\ algo_i' = 1
            /\ execution_results' = IF P.use_multiprocessing THEN <<>>
                                    ELSE execution_results
            /\ finish_order' = <<>>
       ELSE /\ pc' = IF block = "kline" THEN "futur" ELSE "append"
            /\ UNCHANGED <<algo_i, execution_results, finish_order>>
    /\ UNCHANGED interval_vars
    /\ UNCHANGED trade_vars
    /\ UNCHANGED <<config_vars, window_vars, train_vars, file_vars, error, stride,
                   steps, step, predict_labels_df, labels_hat_df, label_i, coll_i,
                   tasks>>

\* How many times a task has been submitted or called, this time included.
Tries(id) == IF id \in DOMAIN tasks THEN tasks[id].tries + 1 ELSE 1

\* The future of a score column of the current step.
TaskId(name) == <<step, name>>
Future(name) == tasks[TaskId(name)]

\* The column of the algorithm the loop over labels is at.
CurrentColumn == ScoreColumnName(App.labels[label_i], name_tag, AlgoOrder[algo_i])

\* Lines 207-220 (286-299): one "if <algo> in P.algorithms: executor.submit(...)".
Submit ==
    /\ pc = "submit"
    /\ IF AlgoOrder[algo_i] \in P.algorithms
       THEN /\ execution_results' = DictSet(execution_results, CurrentColumn)
            /\ tasks' = (TaskId(CurrentColumn) :>
                            [state |-> "pending", args |-> CallArgs(AlgoOrder[algo_i]),
                             result |-> <<>>, tries |-> Tries(TaskId(CurrentColumn))])
                        @@ tasks
       ELSE UNCHANGED <<execution_results, tasks>>
    /\ algo_i' = algo_i + 1
    /\ pc' = IF algo_i = Len(AlgoOrder) THEN "shutdown" ELSE "submit"
    /\ UNCHANGED interval_vars
    /\ UNCHANGED trade_vars
    /\ UNCHANGED <<config_vars, window_vars, train_vars, file_vars, error, stride,
                   steps, step, predict_labels_df, labels_hat_df, label_i, coll_i,
                   finish_order>>

\* The call queue of ProcessPoolExecutor is first in, first out: the next task a
\* free worker takes is the oldest one still pending.
NextPending(id) ==
    /\ id \in DOMAIN tasks
    /\ tasks[id].state = "pending"
    /\ \E i \in DOMAIN execution_results :
          /\ id = TaskId(execution_results[i])
          /\ \A j \in 1..(i - 1) : Future(execution_results[j]).state # "pending"

\* ProcessPoolExecutor(max_workers=P.max_workers): the pool has at most
\* P.max_workers worker processes, each running one task at a time.
FreeWorkerAlways == TRUE
FreeWorker == Cardinality(Running) < P.max_workers

\* A free worker takes a task.
WorkerStart(id) ==
    /\ NextPending(id)
    /\ FreeWorker
    /\ tasks' = [tasks EXCEPT ![id].state = "running"]
    /\ UNCHANGED interval_vars
    /\ UNCHANGED trade_vars
    /\ UNCHANGED <<config_vars, window_vars, train_vars, file_vars, pc, error, stride,
                   steps, step, predict_labels_df, labels_hat_df, label_i, algo_i,
                   execution_results, coll_i, finish_order>>

\* A worker's call of train_predict_<algo> returns.
WorkerReturn(id) ==
    /\ id \in Running
    /\ tasks' = [tasks EXCEPT ![id].state = "done",
                              ![id].result = TrainPredict(tasks[id].args)]
    /\ finish_order' = Append(finish_order, id[2])
    /\ UNCHANGED interval_vars
    /\ UNCHANGED trade_vars
    /\ UNCHANGED <<config_vars, window_vars, train_vars, file_vars, pc, error, stride,
                   steps, step, predict_labels_df, labels_hat_df, label_i, algo_i,
                   execution_results, coll_i>>

\* A worker's call of train_predict_<algo> raises.
WorkerRaise(id) ==
    /\ id \in Running
    /\ tasks' = [tasks EXCEPT ![id].state = "failed"]
    /\ finish_order' = Append(finish_order, id[2])
    /\ UNCHANGED interval_vars
    /\ UNCHANGED trade_vars
    /\ UNCHANGED <<config_vars, window_vars, train_vars, file_vars, pc, error, stride,
                   steps, step, predict_labels_df, labels_hat_df, label_i, algo_i,
                   execution_results, coll_i>>

\* Line 206 (285): leaving "with ProcessPoolExecutor(...) as executor" is
\* executor.shutdown(wait=True), which returns when every submitted task has finished.
ExecutorExit ==
    /\ pc = "shutdown"
    /\ \A i \in DOMAIN execution_results : Finished(Future(execution_results[i]))
    /\ pc' = "collect"
    /\ coll_i' = 1
    /\ UNCHANGED interval_vars
    /\ UNCHANGED trade_vars
    /\ UNCHANGED <<config_vars, window_vars, train_vars, file_vars, error, stride,
                   steps, step, predict_labels_df, labels_hat_df, label_i, algo_i,
                   execution_results, tasks, finish_order>>

\* Line 223 (302): the order of "for score_column_name, future in
\* execution_results.items()" is the insertion order of the dict.
CollectOrderCompleted == finish_order
CollectOrder == execution_results

\* Lines 223-227 (302-306): future.result() waits for the task and returns its
\* result or raises its exception; the test of future.exception() that follows
\* is reached only when there is none, so its "return" is never executed.
Collect ==
    /\ pc = "collect"
    /\ IF coll_i <= Len(CollectOrder)
       THEN LET name == CollectOrder[coll_i]
            IN  /\ Finished(Future(name))
                /\ IF Raised(Future(name))
                   THEN /\ pc' = "raised"
                        /\ error' = "TrainingError"
                        /\ UNCHANGED <<predict_labels_df, coll_i, label_i>>
                   ELSE /\ predict_labels_df' =
                               SetColumn(predict_labels_df, name, Future(name).result)
                        /\ coll_i' = coll_i + 1
                        /\ UNCHANGED <<pc, error, label_i>>
       ELSE /\ label_i' = label_i + 1
            /\ pc' = "labels"
            /\ UNCHANGED <<predict_labels_df, coll_i, error>>
    /\ UNCHANGED interval_vars
    /\ UNCHANGED trade_vars
    /\ UNCHANGED <<config_vars, window_vars, train_vars, file_vars, stride, steps,
                   step, labels_hat_df, algo_i, execution_results, tasks,
                   finish_order>>

\* Where the sequential branch goes after one "if <algo> in P.algorithms".
SeqNext ==
    /\ algo_i' = algo_i + 1
    /\ IF algo_i = Len(AlgoOrder)
       THEN label_i' = label_i + 1 /\ pc' = "labels"
       ELSE label_i' = label_i /\ pc' = "seq"

\* Lines 229-245 (308-324): one "if <algo> in P.algorithms" of the sequential
\* branch, whose call of train_predict_<algo> returns.
SeqCall ==
    /\ pc = "seq"
    /\ IF AlgoOrder[algo_i] \in P.algorithms
       THEN /\ tasks' = (TaskId(CurrentColumn) :>
                            [state |-> "done", args |-> CallArgs(AlgoOrder[algo_i]),
                             result |-> TrainPredict(CallArgs(AlgoOrder[algo_i])),
                             tries |-> Tries(TaskId(CurrentColumn))])
                        @@ tasks
            /\ predict_labels_df' =
                   SetColumn(predict_labels_df, CurrentColumn,
                             TrainPredict(CallArgs(AlgoOrder[algo_i])))
       ELSE UNCHANGED <<tasks, predict_labels_df>>
    /\ SeqNext
    /\ UNCHANGED interval_vars
    /\ UNCHANGED trade_vars
    /\ UNCHANGED <<config_vars, window_vars, train_vars, file_vars, error, stride,
                   steps, step, labels_hat_df, execution_results, coll_i,
                   finish_order>>

\* The same call raises: the exception leaves main.
SeqRaise ==
    /\ pc = "seq"
    /\ AlgoOrder[algo_i] \in P.algorithms
    /\ tasks' = (TaskId(CurrentColumn) :>
                    [state |-> "failed", args |-> CallArgs(AlgoOrder[algo_i]),
                     result |-> <<>>, tries |-> Tries(TaskId(CurrentColumn))]) @@ tasks
    /\ pc' = "raised"
    /\ error' = "TrainingError"
    /\ UNCHANGED interval_vars
    /\ UNCHANGED trade_vars
    /\ UNCHANGED <<config_vars, window_vars, train_vars, file_vars, stride, steps,
                   step, predict_labels_df, labels_hat_df, label_i, algo_i,
                   execution_results, coll_i, finish_order>>

\* Line 330: labels_hat_df = labels_hat_df.append(predict_labels_df), and the
\* next step of the loop.
AppendStep ==
    /\ pc = "append"
    /\ labels_hat_df' = AppendFrame(labels_hat_df, predict_labels_df)
    /\ step' = step + 1
    /\ pc' = "loop"
    /\ UNCHANGED interval_vars
    /\ UNCHANGED trade_vars
    /\ UNCHANGED <<config_vars, window_vars, train_vars, file_vars, error, stride,
                   steps, predict_labels_df, label_i, algo_i, execution_results,
                   coll_i, tasks, finish_order>>

\* Lines 345-352: out_df = labels_hat_df.join(df[out_columns + labels]), stored.
Store ==
    /\ pc = "store"
    /\ out_file' = [written |-> TRUE,
                    frame |-> JoinFrame(labels_hat_df, out_columns \o App.labels)]
    /\ pc' = "score"
    /\ UNCHANGED interval_vars
    /\ UNCHANGED trade_vars
    /\ UNCHANGED <<config_vars, window_vars, train_vars, score_file, error, stride,
                   steps, step, predict_labels_df, labels_hat_df, label_i, algo_i,
                   execution_results, coll_i, tasks, finish_order>>

\* label_column = score_column_name[0:-5]
LabelColumnWhole(name) == name
LabelColumn(name) == SubSeq(name, 1, Len(name) - 5)

\* Lines 361-377: one score line per column of labels_hat_df, computed from the
\* rows of out_df where neither the label nor the prediction is missing.
ScoreLine(name) ==
    LET frame == out_file.frame
        rows == {k \in DOMAIN frame.index :
                    /\ frame.data[LabelColumn(name)][k] # NaN
                    /\ frame.data[name][k] # NaN}
    IN  [column |-> name, y_true |-> LabelColumn(name),
         rows |-> {frame.index[k] : k \in rows}]

\* Lines 361-383: the score lines, appended to the report.  out_df[label_column]
\* raises KeyError when out_df has no such column.
Score ==
    /\ pc = "score"
    /\ IF \A i \in DOMAIN labels_hat_df.columns :
             LabelColumn(labels_hat_df.columns[i]) \in Range(out_file.frame.columns)
       THEN /\ score_file' =
                   [written |-> TRUE,
                    lines |-> [i \in DOMAIN labels_hat_df.columns |->
                                  ScoreLine(labels_hat_df.columns[i])]]
            /\ pc' = "done"
            /\ error' = error
       ELSE /\ pc' = "raised"
            /\ error' = "KeyError"
            /\ score_file' = score_file
    /\ UNCHANGED interval_vars
    /\ UNCHANGED trade_vars
    /\ UNCHANGED <<config_vars, window_vars, train_vars, out_file, stride, steps,
                   step, predict_labels_df, labels_hat_df, label_i, algo_i,
                   execution_results, coll_i, tasks, finish_order>>

Next ==
    \/ CheckSteps
    \/ LoopHead
    \/ KlineBlock
    \/ FuturBlock
    \/ LabelsHead
    \/ Submit
    \/ \E id \in DOMAIN tasks : WorkerStart(id)
    \/ \E id \in DOMAIN tasks : WorkerReturn(id)
    \/ \E id \in DOMAIN tasks : WorkerRaise(id)
    \/ ExecutorExit
    \/ Collect
    \/ SeqCall
    \/ SeqRaise
    \/ AppendStep
    \/ Store
    \/ Score

\* ------------------------------------------------------------------ specifications
\* find_interval_score is not called.
IntervalIdle ==
    /\ ipc = "idle"
    /\ score_df = EmptyFrame
    /\ threshold = 0
    /\ out = <<>>
    /\ interval_df = EmptyFrame
    /\ passed_df = EmptyFrame
    /\ results = <<>>

\* performance_score is not called.
TradeIdle ==
    /\ tpc = "idle"
    /\ trade_df = EmptyFrame
    /\ row_i = 0
    /\ is_buy_mode = TRUE
    /\ performance_long = 0 /\ long_count = 0 /\ long_profitable = 0
    /\ longs = <<>>
    /\ performance_short = 0 /\ short_count = 0 /\ short_profitable = 0
    /\ shorts = <<>>

\* The state when main reaches line 140: the configuration is loaded, the
\* feature matrix is read and prediction_start is the index of one of its rows.
Setup(Ps, Apps, Lens, Starts, Missings) ==
    /\ P \in Ps
    /\ App \in Apps
    /\ df_len \in Lens
    /\ prediction_start \in Starts
    /\ prediction_start < df_len
    /\ missing \in Missings
    /\ pc = "steps"
    /\ error = ""
    /\ stride = 0 /\ steps = 0 /\ step = 0
    /\ predict_start = 0 /\ predict_end = 0
    /\ windows = <<>>
    /\ predict_labels_df = EmptyFrame
    /\ labels_hat_df = EmptyFrame
    /\ block = "" /\ name_tag = "" /\ train_length = 0
    /\ train_start = 0 /\ train_end = 0 /\ train_rows = <<>>
    /\ label_i = 0 /\ algo_i = 0 /\ coll_i = 0
    /\ execution_results = <<>>
    /\ tasks = <<>>
    /\ finish_order = <<>>
    /\ out_file = NoFile
    /\ score_file = NoFile
    /\ IntervalIdle
    /\ TradeIdle

\* Feature sets and algorithms the script knows, and one of each it does not.
FeatureSetChoices == {{"kline"}, {"futur"}, {"kline", "futur"}, {"kline", "depth"}}
AlgorithmChoices == {{"nn"}, {"gb", "nn"}, {"lc", "gb", "nn"}, {"nn", "xx"}}
LabelChoices == {<<"hi">>, <<"hi", "lo">>}
MissingChoices ==
    {[kline |-> {}, futur |-> {}, labels |-> {}],
     [kline |-> {0}, futur |-> {0, 1}, labels |-> {}],
     [kline |-> {0, MaxLen - 1}, futur |-> {0, MaxLen - 1}, labels |-> {MaxLen - 1}]}

\* The dispatch of the tasks, over the configurations of feature sets,
\* algorithms, labels and workers, on a frame of MaxLen rows.
Init ==
    Setup([feature_sets : FeatureSetChoices,
           algorithms : AlgorithmChoices,
           kline_train_length : {MaxTrain},
           futur_train_length : {1},
           prediction_length : 1..MaxStride,
           prediction_count : {0, MaxCount},
           use_multiprocessing : BOOLEAN,
           max_workers : 1..MaxWorkers],
          [label_horizon : {MaxHorizon}, labels : LabelChoices],
          {MaxLen}, {1, MaxLen - 1}, MissingChoices)

Spec == Init /\ [][Next]_vars

\* The windows, over the lengths, starts, strides, counts, horizons and
\* training lengths, with the feature sets and the algorithm of class P.
InitWindows ==
    Setup([feature_sets : {{"kline"}, {"kline", "futur"}},
           algorithms : {{"nn"}},
           kline_train_length : 1..MaxTrain,
           futur_train_length : 1..MaxTrain,
           prediction_length : 1..MaxStride,
           prediction_count : 0..MaxCount,
           use_multiprocessing : BOOLEAN,
           max_workers : {1}],
          [label_horizon : 0..MaxHorizon, labels : {<<"hi">>}],
          1..MaxLen, 0..MaxLen, {[kline |-> {}, futur |-> {}, labels |-> {}]})

SpecWindows == InitWindows /\ [][Next]_vars

\* ------------------------------------------------------------------ claims
\* The loop over the steps has ended without an exception.
LoopEnded == pc \in {"store", "score", "done"}

\* A feature-set block is being executed.
InBlock == pc \in {"labels", "submit", "shutdown", "collect", "seq"}

\* The rows lo, lo+1, .., hi-1 in order.
RowsFrom(lo, hi) == [k \in 1..(hi - lo) |-> lo + k - 1]

\* C1: the loop produces exactly step_count windows of stride rows each; the
\* first starts at prediction_start, each next one starts where the previous
\* one ended, and together they hold step_count * stride rows.
C1_WindowsContiguous ==
    /\ \A i \in DOMAIN windows :
          /\ windows[i].predict_end = windows[i].predict_start + P.prediction_length
          /\ windows[i].rows = RowsFrom(windows[i].predict_start, windows[i].predict_end)
          /\ i = 1 => windows[i].predict_start = prediction_start
          /\ i > 1 => windows[i].predict_start = windows[i - 1].predict_end
    /\ Len(windows) <= steps
    /\ LoopEnded =>
          /\ Len(windows) = steps
          /\ P.prediction_count # 0 => Len(windows) = P.prediction_count
          /\ Cardinality(UNION {Range(windows[i].rows) : i \in DOMAIN windows})
                = steps * P.prediction_length

C1_Witness ==
    /\ pc = "done"
    /\ Len(windows) >= 2
    /\ P.prediction_length >= 2
    /\ windows[2].predict_start = windows[1].predict_end

\* C2: in every feature-set block of every window, train_end is at most
\* predict_start - horizon - 1 and train_start is max(0, train_end - train_length),
\* with the train length of that feature set; a window whose history is shorter
\* than the train length is executed with train_start 0 and raises nothing.
C2_TrainSpan ==
    InBlock =>
        /\ train_end <= predict_start - App.label_horizon - 1
        /\ train_start = Max(0, train_end - train_length)
        /\ train_length = (IF block = "kline" THEN P.kline_train_length
                           ELSE P.futur_train_length)
        /\ name_tag = (IF block = "kline" THEN "_k_" ELSE "_f_")
        /\ error = ""

C2_Witness ==
    /\ InBlock
    /\ train_end > 0
    /\ train_end - train_length < 0
    /\ train_start = 0
    /\ Len(train_rows) = train_end

\* C3: with a step count of more rows than the data holds after the prediction
\* start, main raises before the first window: no window, no task, no file; a run
\* that reaches the end of the loop has made every step asked for.
C3_NotEnoughDataFails ==
    /\ (/\ pc # "steps"
        /\ P.prediction_count # 0
        /\ df_len - prediction_start < P.prediction_count * P.prediction_length)
       => /\ pc = "raised"
          /\ error = "ValueError"
          /\ windows = <<>>
          /\ tasks = <<>>
          /\ out_file = NoFile
          /\ score_file = NoFile
    /\ (LoopEnded /\ P.prediction_count # 0)
       => /\ Len(windows) = P.prediction_count
          /\ \A i \in DOMAIN windows : Len(windows[i].rows) = P.prediction_length

C3_Witness ==
    /\ pc = "raised"
    /\ error = "ValueError"
    /\ df_len - prediction_start > 0
    /\ df_len - prediction_start < P.prediction_count * P.prediction_length

\* C4: with no step count given, steps is the floor of (N - prediction_start) /
\* stride, the check of the data never raises, and a run that reaches the end of
\* the loop has made exactly that many steps.
C4_ComputedSteps ==
    (pc # "steps" /\ P.prediction_count = 0) =>
        /\ steps * P.prediction_length <= df_len - prediction_start
        /\ df_len - prediction_start < (steps + 1) * P.prediction_length
        /\ error # "ValueError"
        /\ Len(windows) <= steps
        /\ LoopEnded => Len(windows) = steps

C4_Witness ==
    /\ pc = "done"
    /\ P.prediction_count = 0
    /\ steps >= 1
    /\ df_len - prediction_start > steps * P.prediction_length
    /\ Len(windows) = steps

\* The predictions file has been written.
Stored == pc \in {"score", "done"}

\* The feature sets and the algorithms main has code for, those configured
\* among them, in the order of the code.
KnownFeatureSets == <<"kline", "futur">>
UsedBlocks == SelectSeq(KnownFeatureSets, LAMBDA b : b \in P.feature_sets)
UsedAlgos == SelectSeq(AlgoOrder, LAMBDA a : a \in P.algorithms)
TagOf(b) == IF b = "kline" THEN "_k_" ELSE "_f_"

\* One prediction column per (feature set, label, algorithm), feature sets
\* first, then labels, then algorithms.
ExpectedColumns ==
    LET nl == Len(App.labels)
        na == Len(UsedAlgos)
    IN  [k \in 1..(Len(UsedBlocks) * nl * na) |->
            App.labels[(((k - 1) \div na) % nl) + 1]
            \o TagOf(UsedBlocks[((k - 1) \div (nl * na)) + 1])
            \o UsedAlgos[((k - 1) % na) + 1]]

C7_UnknownNameRaises ==
    (/\ pc # "steps"
     /\ \/ ~(P.algorithms \subseteq Range(AlgoOrder))
        \/ ~(P.feature_sets \subseteq Range(KnownFeatureSets)))
    => /\ pc = "raised"
       /\ tasks = <<>>
       /\ out_file = NoFile

\* The tasks that raised.
FailedTasks == {id \in DOMAIN tasks : tasks[id].state = "failed"}

\* The position of a column in the dict of the current executor, 0 if absent.
PositionOf(name) ==
    IF name \in Range(execution_results)
    THEN CHOOSE i \in DOMAIN execution_results : execution_results[i] = name
    ELSE 0

\* C8: once a task of a window has raised, the run stays at that window: no task
\* of a later window exists, no task is submitted twice, the loop over the
\* futures does not get past the one that raised, main is waiting for or
\* collecting that label's tasks or has ended with the task's exception, and
\* neither the predictions file nor the score report is ever written.
C8_FailFast ==
    /\ \A id \in FailedTasks :
          /\ step = id[1]
          /\ \A other \in DOMAIN tasks : other[1] <= id[1]
          /\ pc \in {"submit", "shutdown", "collect", "raised"}
          /\ pc = "collect" => coll_i <= PositionOf(id[2])
          /\ pc = "raised" => error = "TrainingError"
          /\ out_file = NoFile
          /\ score_file = NoFile
    /\ \A id \in DOMAIN tasks : tasks[id].tries = 1
    /\ (pc = "raised" /\ error = "TrainingError") =>
          /\ FailedTasks # {}
          /\ out_file = NoFile
          /\ score_file = NoFile

C8_Witness ==
    /\ pc = "raised"
    /\ error = "TrainingError"
    /\ P.use_multiprocessing
    /\ step = 1
    /\ steps >= 2
    /\ labels_hat_df.index # <<>>
    /\ \E id \in FailedTasks : id[1] = 1
    /\ \E id \in DOMAIN tasks : id[1] = 1 /\ tasks[id].state = "done"

\* The values a column of the accumulated table holds on the rows of a window.
WindowValues(name, w) ==
    SubSeq(labels_hat_df.data[name],
           w * P.prediction_length + 1, (w + 1) * P.prediction_length)

\* C9: every task belongs to the current window or to an earlier one; a task
\* that has not finished belongs to the current window and to the executor main
\* is inside of; every task of an earlier window has returned and its result is
\* in the accumulated table, on the rows of its window.
C9_WindowBarrier ==
    \A id \in DOMAIN tasks :
        /\ id[1] <= step
        /\ ~Finished(tasks[id]) =>
              /\ id[1] = step
              /\ pc \in {"submit", "shutdown"}
              /\ id[2] \in Range(execution_results)
        /\ id[1] < step =>
              /\ tasks[id].state = "done"
              /\ id[2] \in Range(labels_hat_df.columns)
              /\ WindowValues(id[2], id[1]) = tasks[id].result
              /\ Len(tasks[id].result) = P.prediction_length

C9_Witness ==
    /\ step = 1
    /\ pc = "shutdown"
    /\ P.use_multiprocessing
    /\ Cardinality(Running) = 2
    /\ \E id \in DOMAIN tasks : id[1] = 0 /\ tasks[id].state = "done"
    /\ \E id \in DOMAIN tasks : id[1] = 1 /\ tasks[id].state = "pending"

\* The training rows of a feature-set block of the current window.
ExpectedTrainRows(b) ==
    LET tend == predict_start - App.label_horizon - 1
        tlen == IF b = "kline" THEN P.kline_train_length ELSE P.futur_train_length
    IN  DropNa(ILoc(Max(0, tend - tlen), tend, df_len), missing[b])

\* The values of the k-th expected column: the predictions of its own
\* algorithm, feature set and label, one per row of the window, in row order.
ExpectedValues(k) ==
    LET nl == Len(App.labels)
        na == Len(UsedAlgos)
        b == UsedBlocks[((k - 1) \div (nl * na)) + 1]
    IN  [j \in 1..P.prediction_length |->
            <<UsedAlgos[((k - 1) % na) + 1], TagOf(b),
              App.labels[(((k - 1) \div na) % nl) + 1],
              ExpectedTrainRows(b), predict_start + j - 1>>]

\* The window's table is being filled or is complete.
InWindow == InBlock \/ pc \in {"futur", "append"}

\* C10: whatever the number of workers and the order in which the tasks finish,
\* and with or without the pool, the columns of the window's table are the
\* first columns of the (feature set, label, algorithm) iteration, in that
\* order, each holding the predictions of its own task row by row; when the
\* window's dispatch is over the table holds all of them.
C10_DispatchDeterministic ==
    InWindow =>
        /\ Len(predict_labels_df.columns) <= Len(ExpectedColumns)
        /\ \A k \in DOMAIN predict_labels_df.columns :
              /\ predict_labels_df.columns[k] = ExpectedColumns[k]
              /\ predict_labels_df.data[ExpectedColumns[k]] = ExpectedValues(k)
        /\ predict_labels_df.index = RowsFrom(predict_start, predict_end)
        /\ pc = "append" => predict_labels_df.columns = ExpectedColumns

C10_Witness ==
    /\ pc = "append"
    /\ P.use_multiprocessing
    /\ P.max_workers >= 2
    /\ Len(finish_order) >= 2
    /\ PositionOf(finish_order[1]) > PositionOf(finish_order[2])
    /\ Len(predict_labels_df.columns) >= 4
    /\ predict_labels_df.columns = ExpectedColumns

\* C11: at every moment at most P.max_workers tasks are running, and all of
\* them are tasks of the current window, feature-set block and label, submitted
\* to the executor main is inside of.
C11_BoundedWorkers ==
    /\ Cardinality(Running) <= P.max_workers
    /\ \A id \in Running :
          /\ id[1] = step
          /\ pc \in {"submit", "shutdown"}
          /\ id[2] \in Range(execution_results)
          /\ tasks[id].args.tag = name_tag
          /\ tasks[id].args.label = App.labels[label_i]
          /\ tasks[id].args.test = windows[step + 1].rows

C11_Witness ==
    /\ P.max_workers = 2
    /\ Cardinality(Running) = 2
    /\ step = 1
    /\ \E id \in DOMAIN tasks : id[1] = step /\ tasks[id].state = "pending"

\* ------------------------------------------------------------------ find_interval_score
\* main is not running.
MainIdle ==
    /\ P = [feature_sets |-> {}, algorithms |-> {}, kline_train_length |-> 0,
            futur_train_length |-> 0, prediction_length |-> 0,
            prediction_count |-> 0, use_multiprocessing |-> FALSE,
            max_workers |-> 0]
    /\ App = [label_horizon |-> 0, labels |-> <<>>]
    /\ df_len = 0
    /\ prediction_start = 0
    /\ missing = [kline |-> {}, futur |-> {}, labels |-> {}]
    /\ pc = "idle"
    /\ error = ""
    /\ stride = 0 /\ steps = 0 /\ step = 0
    /\ predict_start = 0 /\ predict_end = 0
    /\ windows = <<>>
    /\ predict_labels_df = EmptyFrame
    /\ labels_hat_df = EmptyFrame
    /\ block = "" /\ name_tag = "" /\ train_length = 0
    /\ train_start = 0 /\ train_end = 0 /\ train_rows = <<>>
    /\ label_i = 0 /\ algo_i = 0 /\ coll_i = 0
    /\ execution_results = <<>>
    /\ tasks = <<>>
    /\ finish_order = <<>>
    /\ out_file = NoFile
    /\ score_file = NoFile

\* The arguments label_column and score_column of the call, and
\* interval_no_column of line 252.
label_column == "label"
score_column == "score"
interval_no_column == "interval_no"

\* A frame of a boolean label column and a numeric score column.
PointFrame(labels, scores) ==
    [index |-> [k \in DOMAIN labels |-> k - 1],
     columns |-> <<label_column, score_column>>,
     data |-> (label_column :> labels) @@ (score_column :> scores)]

\* Series.diff() of a boolean column: missing on the first row, then whether the
\* value differs from the one of the row before (exclusive or).
DiffInverted(s) == [k \in DOMAIN s |-> IF k = 1 THEN NaN ELSE s[k] = s[k - 1]]
Diff(s) == [k \in DOMAIN s |-> IF k = 1 THEN NaN ELSE s[k] # s[k - 1]]

\* out.iloc[0] = False
SetFirst(s, v) == [s EXCEPT ![1] = v]

\* out.astype(int)
AsInt(s) == [k \in DOMAIN s |-> IF s[k] THEN 1 ELSE 0]

\* The sum of the first k values of s.
RECURSIVE SumTo(_, _)
SumTo(s, k) == IF k = 0 THEN 0 ELSE SumTo(s, k - 1) + s[k]

\* out.cumsum()
CumSumNone(s) == s
CumSum(s) == [k \in DOMAIN s |-> SumTo(s, k)]

\* df[score_column] >= threshold, on one value.
Above(v, t) == v > t
AtLeast(v, t) == v >= t

\* The keys of df.groupby(interval_no_column), which sorts them.
RECURSIVE SortedKeys(_)
SortedKeys(S) ==
    IF S = {} THEN <<>>
    ELSE LET lo == CHOOSE x \in S : \A y \in S : x <= y
         IN  <<lo>> \o SortedKeys(S \ {lo})

\* The rows of one group.
GroupRows(ids, key) == {k \in DOMAIN ids : ids[k] = key}

\* max() of a boolean column over the rows of a group.
GroupMaxNever(col, rows) == FALSE
GroupMax(col, rows) == \E k \in rows : col[k]

\* Lines 246-253: the transitions of the label and their running count, stored
\* in df.  On an empty frame out.iloc[0] raises IndexError.
IntervalNo ==
    /\ ipc = "called"
    /\ IF score_df.index = <<>>
       THEN /\ ipc' = "raised"
            /\ UNCHANGED <<out, score_df>>
       ELSE /\ out' = AsInt(SetFirst(Diff(score_df.data[label_column]), FALSE))
            /\ score_df' = SetColumn(score_df, interval_no_column, CumSum(out'))
            /\ ipc' = "numbered"
    /\ UNCHANGED <<threshold, interval_df, passed_df, results>>
    /\ UNCHANGED main_vars
    /\ UNCHANGED trade_vars

\* Line 259: the scores that reach the threshold, stored in df.
Compare ==
    /\ ipc = "numbered"
    /\ score_df' = SetColumn(score_df, score_column \o "_greater_than_threshold",
                     [k \in DOMAIN score_df.index |->
                         AtLeast(score_df.data[score_column][k], threshold)])
    /\ ipc' = "compared"
    /\ UNCHANGED <<threshold, out, interval_df, passed_df, results>>
    /\ UNCHANGED main_vars
    /\ UNCHANGED trade_vars

\* Lines 262-276: one row per group of interval_no, with the maximum of the
\* label and of the comparison; reset_index makes interval_no a column.
IntervalFrame(df) ==
    LET ids == df.data[interval_no_column]
        keys == SortedKeys(Range(ids))
    IN  [index |-> [j \in DOMAIN keys |-> j - 1],
         columns |-> <<interval_no_column, label_column, score_column>>,
         data |-> (interval_no_column :> keys)
                  @@ (label_column :>
                        [j \in DOMAIN keys |->
                            GroupMax(df.data[label_column], GroupRows(ids, keys[j]))])
                  @@ (score_column :>
                        [j \in DOMAIN keys |->
                            GroupMax(df.data[score_column \o "_greater_than_threshold"],
                                     GroupRows(ids, keys[j]))])]

\* Lines 262-278: the aggregation, and the return.
Aggregate ==
    /\ ipc = "compared"
    /\ interval_df' = IntervalFrame(score_df)
    /\ results' = Append(results, IntervalFrame(score_df))
    /\ ipc' = "returned"
    /\ UNCHANGED <<score_df, threshold, out, passed_df>>
    /\ UNCHANGED main_vars
    /\ UNCHANGED trade_vars

\* A boolean score as the number the comparison with the threshold sees.
AsNumber(s) == [k \in DOMAIN s |-> IF s[k] THEN 100 ELSE 0]

\* The caller passes the returned frame to a second call, with the same column
\* names and threshold.
CallAgain ==
    /\ ipc = "returned"
    /\ Len(results) = 1
    /\ score_df' = [interval_df EXCEPT
                       !.data[score_column] = AsNumber(interval_df.data[score_column])]
    /\ passed_df' = score_df'
    /\ ipc' = "called"
    /\ UNCHANGED <<threshold, out, interval_df, results>>
    /\ UNCHANGED main_vars
    /\ UNCHANGED trade_vars

NextInterval ==
    \/ IntervalNo
    \/ Compare
    \/ Aggregate
    \/ CallAgain

\* The scores and the threshold of the calls: below, at and above the threshold.
ScoreChoices == {10, 50, 90}
ThresholdChoices == {50}

\* The example of the specification: labels, scores and threshold 0.5.
ExampleLabels == <<TRUE, TRUE, FALSE, FALSE, FALSE, TRUE>>
ExampleScores == <<90, 10, 20, 80, 10, 95>>

\* A call of find_interval_score on a frame of up to MaxPoints rows, or on the
\* example.
InitInterval ==
    /\ MainIdle
    /\ TradeIdle
    /\ ipc = "called"
    /\ \/ \E n \in 0..MaxPoints :
             \E labels \in [1..n -> BOOLEAN], scores \in [1..n -> ScoreChoices] :
                score_df = PointFrame(labels, scores)
       \/ score_df = PointFrame(ExampleLabels, ExampleScores)
    /\ threshold \in ThresholdChoices
    /\ out = <<>>
    /\ interval_df = EmptyFrame
    /\ passed_df = score_df
    /\ results = <<>>

SpecInterval == InitInterval /\ [][NextInterval]_vars

\* The labels the caller passed, and the rows where the label differs from the
\* one of the row before.
PassedLabels == passed_df.data[label_column]
Transitions == {k \in DOMAIN PassedLabels : k > 1 /\ PassedLabels[k] # PassedLabels[k - 1]}

\* C12: for a non-empty label sequence, rows of one maximal run of equal labels
\* share an interval id, the id grows from one run to the next, and the returned
\* frame has one row per run, 1 + the number of transitions, with increasing
\* ids; the labels T,T,F,F,F,T give 3 intervals.
C12_OneIdPerRun ==
    /\ (ipc \in {"numbered", "compared", "returned"}) =>
          LET ids == score_df.data[interval_no_column]
          IN  /\ DOMAIN ids = DOMAIN PassedLabels
              /\ PassedLabels # <<>>
              /\ \A k \in DOMAIN ids :
                    k > 1 => IF k \in Transitions
                             THEN ids[k] > ids[k - 1]
                             ELSE ids[k] = ids[k - 1]
    /\ (ipc = "returned") =>
          LET nos == interval_df.data[interval_no_column]
          IN  /\ Len(interval_df.index) = 1 + Cardinality(Transitions)
              /\ Len(nos) = Len(interval_df.index)
              /\ \A j \in DOMAIN nos : j > 1 => nos[j] > nos[j - 1]
              /\ Range(nos) = Range(score_df.data[interval_no_column])
              /\ (PassedLabels = ExampleLabels) => Len(interval_df.index) = 3

C12_Witness ==
    /\ ipc = "returned"
    /\ PassedLabels = ExampleLabels
    /\ Len(interval_df.index) = 3
    /\ score_df.data[interval_no_column] = <<0, 0, 1, 1, 1, 2>>

\* The rows of the passed frame that make up row j of the returned frame.
IntervalRows(j) ==
    GroupRows(score_df.data[interval_no_column], interval_df.data[interval_no_column][j])

C14_FixedPoint ==
    (ipc = "returned" /\ Len(results) = 2) =>
        /\ Len(results[2].index) = Len(results[1].index)
        /\ Len(results[2].index) = Len(passed_df.index)
        /\ results[2].data[label_column] = results[1].data[label_column]
        /\ results[2].data[interval_no_column] = results[1].data[interval_no_column]

C14_Witness ==
    /\ ipc = "returned"
    /\ Len(results) = 2
    /\ Len(results[1].index) = 3
    /\ Len(results[2].index) = 3

\* ------------------------------------------------------------------ performance_score
\* The arguments sell_signal_column, buy_signal_column and price_column of the
\* call.
sell_signal_column == "sell"
buy_signal_column == "buy"
price_column == "price"

\* A frame of two boolean signal columns and a price column.
TradeFrame(sells, buys, prices) ==
    [index |-> [k \in DOMAIN prices |-> k - 1],
     columns |-> <<buy_signal_column, sell_signal_column, price_column>>,
     data |-> (sell_signal_column :> sells) @@ (buy_signal_column :> buys)
              @@ (price_column :> prices)]

\* Lines 307-308: the tuples (index, top_score, bot_score, price) of the
\* selection of the three columns, never assigned to the frame of the caller.
ItertuplesReversed(df) ==
    [k \in DOMAIN df.index |->
        <<df.index[Len(df.index) + 1 - k],
          df.data[sell_signal_column][Len(df.index) + 1 - k],
          df.data[buy_signal_column][Len(df.index) + 1 - k],
          df.data[price_column][Len(df.index) + 1 - k]>>]
Itertuples(df) ==
    [k \in DOMAIN df.index |->
        <<df.index[k], df.data[sell_signal_column][k],
          df.data[buy_signal_column][k], df.data[price_column][k]>>]

\* Line 294.
InitialModeSell == FALSE
InitialMode == TRUE

\* Lines 309-311 and 319-321: the signal the mode waits for.
AwaitedAny(mode, top_score, bot_score) == top_score \/ bot_score
AwaitedAlways(mode, top_score, bot_score) == TRUE
Awaited(mode, top_score, bot_score) == IF mode THEN bot_score ELSE top_score

\* Line 312; an event is (index, is_buy_mode, price, profit).
ShortProfitOne(ls, price) == IF Len(ls) > 0 THEN ls[Len(ls)][3] - price ELSE 1
ShortProfitSigned(ls, price) == IF Len(ls) > 0 THEN price - ls[Len(ls)][3] ELSE 0
ShortProfit(ls, price) == IF Len(ls) > 0 THEN ls[Len(ls)][3] - price ELSE 0

\* Line 322.
LongProfitNone(ss, price) == 0
LongProfitSigned(ss, price) == IF Len(ss) > 0 THEN ss[Len(ss)][3] - price ELSE 0
LongProfit(ss, price) == IF Len(ss) > 0 THEN price - ss[Len(ss)][3] ELSE 0

\* Lines 315-316 and 325-326.
ProfitableOrZero(profit) == IF profit >= 0 THEN 1 ELSE 0
Profitable(profit) == IF profit > 0 THEN 1 ELSE 0

\* Lines 308-328: one pass of the loop.
TradeRow ==
    /\ tpc = "loop"
    /\ row_i < Len(trade_df.index)
    /\ row_i' = row_i + 1
    /\ LET t == Itertuples(trade_df)[row_i + 1]
           index == t[1]
           top_score == t[2]
           bot_score == t[3]
           price == t[4]
       IN  IF Awaited(is_buy_mode, top_score, bot_score)
           THEN IF is_buy_mode
                THEN LET profit == ShortProfit(longs, price)
                     IN  /\ performance_short' = performance_short + profit
                         /\ short_count' = short_count + 1
                         /\ short_profitable' = short_profitable + Profitable(profit)
                         /\ shorts' = Append(shorts, <<index, is_buy_mode, price, profit>>)
                         /\ is_buy_mode' = FALSE
                         /\ UNCHANGED long_vars
                ELSE LET profit == LongProfit(shorts, price)
                     IN  /\ performance_long' = performance_long + profit
                         /\ long_count' = long_count + 1
                         /\ long_profitable' = long_profitable + Profitable(profit)
                         /\ longs' = Append(longs, <<index, is_buy_mode, price, profit>>)
                         /\ is_buy_mode' = TRUE
                         /\ UNCHANGED short_vars
           ELSE UNCHANGED <<is_buy_mode, long_vars, short_vars>>
    /\ UNCHANGED <<tpc, trade_df>>
    /\ UNCHANGED main_vars
    /\ UNCHANGED interval_vars

\* Line 330.
TradeReturn ==
    /\ tpc = "loop"
    /\ row_i = Len(trade_df.index)
    /\ tpc' = "returned"
    /\ UNCHANGED <<trade_df, row_i, is_buy_mode, long_vars, short_vars>>
    /\ UNCHANGED main_vars
    /\ UNCHANGED interval_vars

NextTrade ==
    \/ TradeRow
    \/ TradeReturn

\* The example of the specification.
ExampleBuy == <<FALSE, TRUE, FALSE, FALSE, TRUE>>
ExampleSell == <<FALSE, FALSE, TRUE, FALSE, FALSE>>
ExamplePrice == <<10, 9, 11, 10, 8>>

\* A call of performance_score on a frame of up to MaxRows rows with prices up to
\* MaxPrice, or on the example, after the assignments of lines 294-304.
InitTrade ==
    /\ MainIdle
    /\ IntervalIdle
    /\ tpc = "loop"
    /\ \/ \E n \in 0..MaxRows :
             \E sells \in [1..n -> BOOLEAN], buys \in [1..n -> BOOLEAN],
                prices \in [1..n -> 1..MaxPrice] :
                trade_df = TradeFrame(sells, buys, prices)
       \/ trade_df = TradeFrame(ExampleSell, ExampleBuy, ExamplePrice)
    /\ row_i = 0
    /\ is_buy_mode = InitialMode
    /\ performance_long = 0 /\ long_count = 0 /\ long_profitable = 0
    /\ longs = <<>>
    /\ performance_short = 0 /\ short_count = 0 /\ short_profitable = 0
    /\ shorts = <<>>

SpecTrade == InitTrade /\ [][NextTrade]_vars

\* The loop is about to consume a row; the values of that row.
AtRow == tpc = "loop" /\ row_i < Len(trade_df.index)
RowIndex == trade_df.index[row_i + 1]
RowSell == trade_df.data[sell_signal_column][row_i + 1]
RowBuy == trade_df.data[buy_signal_column][row_i + 1]
RowPrice == trade_df.data[price_column][row_i + 1]

\* C15: in buy mode, a row with a true buy signal takes as profit the price of
\* the last long event minus the price of the row, or 0 when there is no long
\* event; it adds the profit to performance_short, counts the short, counts it
\* as profitable exactly when the profit is positive, appends (row, mode, price,
\* profit) to shorts, leaves buy mode and changes nothing of the long side.
C15_BuySignal ==
    [][(AtRow /\ is_buy_mode /\ RowBuy) =>
          LET profit == IF longs # <<>> THEN longs[Len(longs)][3] - RowPrice ELSE 0
          IN  /\ performance_short' = performance_short + profit
              /\ short_count' = short_count + 1
              /\ short_profitable' = IF profit > 0 THEN short_profitable + 1
                                     ELSE short_profitable
              /\ shorts' = Append(shorts, <<RowIndex, TRUE, RowPrice, profit>>)
              /\ is_buy_mode' = FALSE
              /\ UNCHANGED long_vars]_vars

\* A short that closed a long with a positive profit has just been recorded.
C15_Witness ==
    /\ tpc = "loop"
    /\ ~is_buy_mode
    /\ longs # <<>>
    /\ Len(shorts) = 2
    /\ shorts[2][1] = row_i - 1
    /\ shorts[2][4] > 0
    /\ shorts[2][4] = longs[Len(longs)][3] - shorts[2][3]
    /\ performance_short = shorts[2][4]
    /\ short_profitable = 1

\* C16: out of buy mode, a row with a true sell signal takes as profit the price
\* of the row minus the price of the last short event, or 0 when there is no
\* short event; it adds the profit to performance_long, counts the long, counts
\* it as profitable exactly when the profit is positive, appends the event to
\* longs, enters buy mode and changes nothing of the short side.
C16_SellSignal ==
    [][(AtRow /\ ~is_buy_mode /\ RowSell) =>
          LET profit == IF shorts # <<>> THEN RowPrice - shorts[Len(shorts)][3] ELSE 0
          IN  /\ performance_long' = performance_long + profit
              /\ long_count' = long_count + 1
              /\ long_profitable' = IF profit > 0 THEN long_profitable + 1
                                    ELSE long_profitable
              /\ longs' = Append(longs, <<RowIndex, FALSE, RowPrice, profit>>)
              /\ is_buy_mode' = TRUE
              /\ UNCHANGED short_vars]_vars

\* A long that closed a short with a positive profit has just been recorded.
C16_Witness ==
    /\ tpc = "loop"
    /\ is_buy_mode
    /\ Len(shorts) = 1
    /\ Len(longs) = 1
    /\ longs[1][1] = row_i - 1
    /\ longs[1][4] > 0
    /\ longs[1][4] = longs[1][3] - shorts[1][3]
    /\ performance_long = longs[1][4]
    /\ long_profitable = 1

\* C17: a row whose awaited signal is false, the buy signal in buy mode and the
\* sell signal out of it, changes neither the mode nor a total, a counter or an
\* event sequence, whatever its other signal and its price.
C17_NoOpRow ==
    [][(AtRow /\ ~(IF is_buy_mode THEN RowBuy ELSE RowSell)) =>
          UNCHANGED <<is_buy_mode, long_vars, short_vars>>]_vars

\* Two rows have been passed over with the other signal true: a sell signal in
\* buy mode, then, after a buy, a buy signal out of buy mode.
C17_Witness ==
    /\ tpc = "loop"
    /\ row_i = 3
    /\ trade_df.data[sell_signal_column][1] /\ ~trade_df.data[buy_signal_column][1]
    /\ trade_df.data[buy_signal_column][3] /\ ~trade_df.data[sell_signal_column][3]
    /\ ~is_buy_mode
    /\ Len(shorts) = 1
    /\ shorts[1][1] = 1
    /\ longs = <<>>

\* The call is on the example.
OnExample == trade_df = TradeFrame(ExampleSell, ExampleBuy, ExamplePrice)

\* C18: on the example the call returns a short at row 1 with profit 0, a long at
\* row 2 with profit 2 and a short at row 4 with profit 3; performance_long is 2,
\* performance_short 3, long_count 1 and short_count 2.
C18_Example ==
    (OnExample /\ tpc = "returned") =>
        /\ shorts = << <<1, TRUE, 9, 0>>, <<4, TRUE, 8, 3>> >>
        /\ longs = << <<2, FALSE, 11, 2>> >>
        /\ performance_long = 2
        /\ performance_short = 3
        /\ long_count = 1
        /\ short_count = 2

C18_Witness ==
    /\ OnExample
    /\ tpc = "returned"
    /\ row_i = 5
    /\ Len(shorts) = 2
    /\ Len(longs) = 1
    /\ is_buy_mode = FALSE

\* No row of the frame has a true buy or sell signal.
NoSignal ==
    \A k \in DOMAIN trade_df.index :
        ~trade_df.data[buy_signal_column][k] /\ ~trade_df.data[sell_signal_column][k]

\* C19: on a frame without a true signal on any row, the empty frame included,
\* the call returns, with both performances and the four counts 0 and with empty
\* longs and shorts.
C19_NoSignal ==
    (NoSignal /\ tpc \in {"loop", "returned"}) =>
        /\ performance_long = 0 /\ performance_short = 0
        /\ long_count = 0 /\ short_count = 0
        /\ long_profitable = 0 /\ short_profitable = 0
        /\ longs = <<>> /\ shorts = <<>>
        /\ (tpc = "loop" /\ row_i = Len(trade_df.index)) => ENABLED TradeReturn

C19_Witness ==
    /\ NoSignal
    /\ tpc = "returned"
    /\ row_i = 2
    /\ Len(trade_df.index) = 2
    /\ short_count = 0


\* C20: when find_interval_score has returned, the frame of the caller has no
\* column it did not have when the call began and no value of it has changed.
C20_CallerFrameUntouched ==
    (ipc = "returned") =>
        /\ Range(score_df.columns) \subseteq Range(passed_df.columns)
        /\ score_df.index = passed_df.index
        /\ \A c \in Range(passed_df.columns) : score_df.data[c] = passed_df.data[c]

\* ------------------------------------------------------------------ the training slice
\* C21: in every window, also one whose predict_start - label_horizon - 1 is
\* negative, every row of the training slice has an index below
\* predict_start - label_horizon - 1: no row of the embargo, of the window or of
\* a later window is trained on.
C21_NoLeakage ==
    /\ InBlock =>
          \A r \in Range(train_rows) : r < predict_start - App.label_horizon - 1
    /\ \A id \in DOMAIN tasks :
          \A r \in Range(tasks[id].args.train) :
              r < PredictStart(id[1]) - App.label_horizon - 1

\* C22: rows with a missing feature value are dropped from the training slice
\* and from nothing else: the window's table has every row of
\* [predict_start, predict_end), the tasks are given all of them, and every
\* prediction column has one entry per row of the window, stride entries.
C22_DropTrainOnly ==
    /\ InBlock =>
          /\ Range(train_rows) =
                Range(ILoc(train_start, train_end, df_len)) \ missing[block]
    /\ \A id \in DOMAIN tasks :
          /\ tasks[id].args.test = RowsFrom(PredictStart(id[1]), PredictEnd(id[1]))
          /\ Range(tasks[id].args.train)
                \cap missing[IF tasks[id].args.tag = "_k_" THEN "kline" ELSE "futur"] = {}
    /\ InWindow =>
          /\ predict_labels_df.index = RowsFrom(predict_start, predict_end)
          /\ Len(predict_labels_df.index) = stride
          /\ \A c \in Range(predict_labels_df.columns) :
                /\ Len(predict_labels_df.data[c]) = stride
                /\ \A j \in 1..stride :
                      predict_labels_df.data[c][j][5] = predict_start + j - 1

\* A block whose feature set misses a value on a row of the training slice and
\* on a row of the window has stored a column.
C22_Witness ==
    /\ InBlock
    /\ train_end > 0
    /\ Range(ILoc(train_start, train_end, df_len)) \cap missing[block] # {}
    /\ Range(predict_labels_df.index) \cap missing[block] # {}
    /\ \E c \in Range(predict_labels_df.columns) :
          /\ Len(predict_labels_df.data[c]) = stride
          /\ predict_labels_df.data[c][1][2] = name_tag

\* ------------------------------------------------------------------ the score report
\* The label of the k-th expected column.
ExpectedLabel(k) == App.labels[(((k - 1) \div Len(UsedAlgos)) % Len(App.labels)) + 1]

C24_Interleave ==
    (ipc = "returned") =>
        \A j \in DOMAIN interval_df.index :
            j > 1 => interval_df.data[label_column][j]
                        # interval_df.data[label_column][j - 1]

C24_Witness ==
    /\ ipc = "returned"
    /\ Len(results) = 1
    /\ Len(passed_df.index) > 3
    /\ interval_df.data[label_column] = <<FALSE, TRUE, FALSE>>

\* ------------------------------------------------------------------ the two branches
\* The window's table as the sequential branch builds it (lines 229-245 and
\* 308-324), after the first k calls of the iteration over the feature sets,
\* the labels and the algorithms.
RECURSIVE SequentialTable(_)
SequentialTable(k) ==
    IF k = 0
    THEN FrameOfIndex(ILoc(predict_start, predict_end, df_len))
    ELSE LET b == UsedBlocks[((k - 1) \div (Len(App.labels) * Len(UsedAlgos))) + 1]
             args == [algo |-> UsedAlgos[((k - 1) % Len(UsedAlgos)) + 1],
                      tag |-> TagOf(b),
                      label |-> ExpectedLabel(k),
                      train |-> ExpectedTrainRows(b),
                      test |-> ILoc(predict_start, predict_end, df_len)]
         IN  SetColumn(SequentialTable(k - 1),
                       ScoreColumnName(args.label, args.tag, args.algo),
                       TrainPredict(args))

\* C25: with use_multiprocessing True as with False, the table of a window
\* whose dispatch is over is the table the sequential calls build on the same
\* inputs: the same columns in the same order with the same values.
C25_BranchesAgree ==
    (pc = "append") =>
        /\ predict_labels_df = SequentialTable(Len(ExpectedColumns))
        /\ predict_labels_df.columns = ExpectedColumns

\* The pool has built the table of the second window, of four columns at least,
\* and a task of its last executor finished before one submitted earlier.
C25_Witness ==
    /\ pc = "append"
    /\ P.use_multiprocessing
    /\ step = 1
    /\ Len(predict_labels_df.columns) >= 4
    /\ Len(finish_order) >= 2
    /\ finish_order # execution_results
    /\ predict_labels_df = SequentialTable(Len(ExpectedColumns))


\* ------------------------------------------------------------------ the trades
\* The sum of the profits of a sequence of events, and the number of them with
\* a positive profit.
RECURSIVE ProfitSum(_)
ProfitSum(events) ==
    IF events = <<>> THEN 0
    ELSE ProfitSum(SubSeq(events, 1, Len(events) - 1)) + events[Len(events)][4]
Profitables(events) == Cardinality({k \in DOMAIN events : events[k][4] > 0})

\* The loop of performance_score has begun.
InTrade == tpc \in {"loop", "returned"}

\* C26: after every row, short_count - long_count is 0 or 1, the mode is buy
\* mode exactly when the two counts are equal, every event of shorts records
\* mode True and every event of longs mode False.
C26_ModeAndCounts ==
    InTrade =>
        /\ short_count - long_count \in {0, 1}
        /\ is_buy_mode = (short_count = long_count)
        /\ \A k \in DOMAIN shorts : shorts[k][2] = TRUE
        /\ \A k \in DOMAIN longs : longs[k][2] = FALSE

C26_Witness ==
    /\ tpc = "loop"
    /\ row_i = 3
    /\ short_count = 2
    /\ long_count = 1
    /\ ~is_buy_mode
    /\ Len(shorts) = 2

\* C27: the first event recorded is a short, of profit 0; a long is recorded
\* only when shorts is not empty, so its profit is never the 0 of "no short
\* yet", and every short after the first is recorded when longs is not empty.
C27_FirstIsShort ==
    /\ InTrade =>
          /\ shorts # <<>> => shorts[1][4] = 0
          /\ longs # <<>> => (shorts # <<>> /\ shorts[1][1] < longs[1][1])
          /\ \A k \in DOMAIN shorts :
                k > 1 => (Len(longs) >= k - 1 /\ longs[k - 1][1] < shorts[k][1])
    /\ (AtRow /\ ~is_buy_mode /\ RowSell) => shorts # <<>>
    /\ (AtRow /\ is_buy_mode /\ RowBuy /\ shorts # <<>>) => longs # <<>>

C27_Witness ==
    /\ tpc = "returned"
    /\ Len(shorts) = 2
    /\ Len(longs) = 1
    /\ shorts[1][4] = 0
    /\ longs[1][4] # 0
    /\ shorts[2][4] # 0

\* C28: after every row, each count is the length of its sequence, each
\* performance the sum of the profits of its sequence, and each number of
\* profitable trades the number of events of a positive profit, at most the
\* count; an event of profit 0 is not counted as profitable.
C28_Accounting ==
    InTrade =>
        /\ long_count = Len(longs)
        /\ short_count = Len(shorts)
        /\ performance_long = ProfitSum(longs)
        /\ performance_short = ProfitSum(shorts)
        /\ long_profitable = Profitables(longs)
        /\ short_profitable = Profitables(shorts)
        /\ long_profitable <= long_count
        /\ short_profitable <= short_count

C28_Witness ==
    /\ tpc = "returned"
    /\ Len(shorts) = 2
    /\ Len(longs) = 1
    /\ longs[1][4] = 0
    /\ long_profitable = 0
    /\ shorts[2][4] > 0
    /\ short_profitable = 1
    /\ performance_short = shorts[2][4]

\* The rows that have an event.
ShortRows == {shorts[k][1] : k \in DOMAIN shorts}
LongRows == {longs[k][1] : k \in DOMAIN longs}

\* C29: a row has at most one event, also a row with both signals true; in the
\* order of the rows the events alternate short, long, short, ..., each on a
\* later row than the one before, and the profit of every event but the first
\* is taken against the price of the event just before it.
C29_Alternation ==
    InTrade =>
        /\ ShortRows \cap LongRows = {}
        /\ Cardinality(ShortRows) = Len(shorts)
        /\ Cardinality(LongRows) = Len(longs)
        /\ \A r \in ShortRows \cup LongRows : r < row_i
        /\ Len(shorts) - Len(longs) \in {0, 1}
        /\ \A k \in DOMAIN longs :
              /\ shorts[k][1] < longs[k][1]
              /\ longs[k][4] = longs[k][3] - shorts[k][3]
        /\ \A k \in DOMAIN shorts :
              k > 1 => /\ longs[k - 1][1] < shorts[k][1]
                       /\ shorts[k][4] = longs[k - 1][3] - shorts[k][3]

\* A row with both signals true has recorded one event, a long, between two
\* shorts.
C29_Witness ==
    /\ tpc = "returned"
    /\ Len(trade_df.index) = 3
    /\ trade_df.data[buy_signal_column][2] /\ trade_df.data[sell_signal_column][2]
    /\ Len(shorts) = 2
    /\ Len(longs) = 1
    /\ longs[1][1] = 1
    /\ shorts[2][1] = 2

\* Lines 294-304: the values before the loop.
Started ==
    [is_buy_mode |-> InitialMode,
     performance_long |-> 0, long_count |-> 0, long_profitable |-> 0, longs |-> <<>>,
     performance_short |-> 0, short_count |-> 0, short_profitable |-> 0,
     shorts |-> <<>>]

\* Lines 309-328: the values after the pass of the loop on the tuple t.
Pass(st, t) ==
    IF Awaited(st.is_buy_mode, t[2], t[3])
    THEN IF st.is_buy_mode
         THEN LET profit == ShortProfit(st.longs, t[4])
              IN  [st EXCEPT !.performance_short = @ + profit,
                             !.short_count = @ + 1,
                             !.short_profitable = @ + Profitable(profit),
                             !.shorts = Append(@, <<t[1], st.is_buy_mode, t[4], profit>>),
                             !.is_buy_mode = FALSE]
         ELSE LET profit == LongProfit(st.shorts, t[4])
              IN  [st EXCEPT !.performance_long = @ + profit,
                             !.long_count = @ + 1,
                             !.long_profitable = @ + Profitable(profit),
                             !.longs = Append(@, <<t[1], st.is_buy_mode, t[4], profit>>),
                             !.is_buy_mode = TRUE]
    ELSE st

\* The values after the first k passes of the loop over the tuples.
RECURSIVE AfterPasses(_, _)
AfterPasses(tuples, k) ==
    IF k = 0 THEN Started ELSE Pass(AfterPasses(tuples, k - 1), tuples[k])

\* performance_score(df, ...): the values returned at line 330, with the mode.
performance_score(df) == AfterPasses(Itertuples(df), Len(df.index))

\* df.iloc[:k], the first k rows of the frame of the caller.
FirstRows(df, k) ==
    [index |-> SubSeq(df.index, 1, k),
     columns |-> df.columns,
     data |-> [c \in DOMAIN df.data |-> SubSeq(df.data[c], 1, k)]]

\* The values of the call in progress.
Current ==
    [is_buy_mode |-> is_buy_mode,
     performance_long |-> performance_long, long_count |-> long_count,
     long_profitable |-> long_profitable, longs |-> longs,
     performance_short |-> performance_short, short_count |-> short_count,
     short_profitable |-> short_profitable, shorts |-> shorts]

\* The events of a are the first events of b.
IsPrefix(a, b) == Len(a) <= Len(b) /\ a = SubSeq(b, 1, Len(a))

\* The events of b after those of a.
Later(a, b) == SubSeq(b, Len(a) + 1, Len(b))

\* C30: for every frame and every number k of its first rows, what the call
\* returns on the first k rows is a prefix of what it returns on the frame: the
\* longs and shorts are the first ones of the frame's, and the counts and the
\* performances of the frame are those of the k rows plus those of the events
\* recorded after them; the values after k passes of the loop are the values
\* returned on the first k rows.
C30_PrefixStable ==
    /\ InTrade => Current = performance_score(FirstRows(trade_df, row_i))
    /\ (tpc = "returned") =>
          \A k \in 0..Len(trade_df.index) :
              LET pre == performance_score(FirstRows(trade_df, k))
              IN  /\ IsPrefix(pre.longs, longs)
                  /\ IsPrefix(pre.shorts, shorts)
                  /\ long_count = pre.long_count + Len(Later(pre.longs, longs))
                  /\ short_count = pre.short_count + Len(Later(pre.shorts, shorts))
                  /\ performance_long =
                        pre.performance_long + ProfitSum(Later(pre.longs, longs))
                  /\ performance_short =
                        pre.performance_short + ProfitSum(Later(pre.shorts, shorts))
                  /\ long_profitable =
                        pre.long_profitable + Profitables(Later(pre.longs, longs))
                  /\ short_profitable =
                        pre.short_profitable + Profitables(Later(pre.shorts, shorts))

\* The call on three rows has returned two events more than the call on the
\* first row returns.
C30_Witness ==
    /\ tpc = "returned"
    /\ Len(trade_df.index) = 3
    /\ Len(performance_score(FirstRows(trade_df, 1)).shorts) = 1
    /\ Len(shorts) = 2
    /\ Len(longs) = 1
    /\ performance_short # performance_score(FirstRows(trade_df, 1)).performance_short
====
